---- MODULE Spec2Model ----
(***************************************************************************)
(* A model of src/index.ts: a proof-of-work ledger.  Transaction, Block,   *)
(* Chain (addBlock, mine, lastBlock) and Wallet (sendMoney).               *)
(*                                                                         *)
(* Cryptography is modelled in the usual symbolic way: a SHA256 digest is  *)
(* an injective function of the hashed text, an RSA signature verifies     *)
(* exactly under the matching public key over the signed text.  The MD5    *)
(* digests used by the proof of work are the real ones, tabulated for the  *)
(* window of integers the model's nonces range over.                       *)
(***************************************************************************)
EXTENDS Integers, Sequences, FiniteSets, TLC

VARIABLES
    chain,      \* Chain.instance.chain : Block[]
    pc,         \* the single thread: "idle", in mine's loop ("mine"), addBlock about to return ("return")
    newBlock,   \* addBlock's local newBlock: <<>> or <<block>>
    solution,   \* mine's local solution (0 outside mine)
    now,        \* the last value Date.now() returned
    call,       \* the arguments of the addBlock call in progress (NoCall when idle)
    mined,      \* what mine returned to the call in progress (0: mine has not returned)
    log,        \* history: one entry per push, the nonce mine was given and what it returned
    admitted    \* history: the transactions of the calls whose signature verified, in call order

vars == <<chain, pc, newBlock, solution, now, call, mined, log, admitted>>

----------------------------------------------------------------------------
(* Bounds of the model *)

\* no call is made once the chain holds MaxChain blocks (genesis included)
MaxChain == 3
\* Date.now() ranges over 0..MaxTime, counted from the construction of the chain
MaxTime == 1

----------------------------------------------------------------------------
(* JavaScript numbers: finite values and the non-finite ones *)

Num(v) == [k |-> "num", v |-> v]
PosInfinity == [k |-> "Infinity", v |-> 0]
NegInfinity == [k |-> "-Infinity", v |-> 0]

\* JSON.stringify of a number: non-finite numbers serialise as null
JsonNumber(a) == IF a.k = "num" THEN ToString(a.v) ELSE "null"

\* JSON.stringify of a string (the model's strings need no escaping)
JsonString(s) == "\"" \o s \o "\""

----------------------------------------------------------------------------
(* Transaction *)

Transaction(amount, payer, payee) ==
    [amount |-> amount, payer |-> payer, payee |-> payee]

\* Transaction.toString: JSON.stringify(this), fields in declaration order
TxToString(t) ==
    "{\"amount\":" \o JsonNumber(t.amount)
        \o ",\"payer\":" \o JsonString(t.payer)
        \o ",\"payee\":" \o JsonString(t.payee) \o "}"

----------------------------------------------------------------------------
(* Wallet: key pairs and signatures *)

Wallets == {"alice", "bob"}

PublicKey(w) == "pub-" \o w
PrivateKey(w) == "priv-" \o w

\* the key pair generated by the Wallet constructor
KeyPair(w) == [publicKey |-> PublicKey(w), privateKey |-> PrivateKey(w)]

\* sign.update(text).end(); sign.sign(privateKey)
Sign(privateKey, text) == [key |-> privateKey, text |-> text, intact |-> TRUE]

\* a signature with one byte flipped
Corrupt(sig) == [sig EXCEPT !.intact = FALSE]

\* verify.update(text); verify.verify(publicKey, signature)
Verify(publicKey, text, sig) ==
    /\ sig.intact
    /\ sig.text = text
    /\ \E w \in Wallets : publicKey = PublicKey(w) /\ sig.key = PrivateKey(w)

----------------------------------------------------------------------------
(* Block *)

\* the range of Math.round(Math.random() * 999999999) is 0..999999999; the
\* model draws the nonce from two values of it that lie next to two integers
\* whose MD5 digest starts with 0000 (96490843 and 96490848)
NonceChoices == {96490842, 96490843}

Block(prevHash, transaction, ts, nonce) ==
    [prevHash |-> prevHash, transaction |-> transaction, ts |-> ts, nonce |-> nonce]

\* a digest computed before the nonce is set (the nonce left out)
BlockToString_NoNonce(b) ==
    "{\"prevHash\":" \o JsonString(b.prevHash)
        \o ",\"transaction\":" \o TxToString(b.transaction)
        \o ",\"ts\":" \o ToString(b.ts) \o "}"

\* JSON.stringify(block)
BlockToString(b) ==
    "{\"prevHash\":" \o JsonString(b.prevHash)
        \o ",\"transaction\":" \o TxToString(b.transaction)
        \o ",\"ts\":" \o ToString(b.ts)
        \o ",\"nonce\":" \o ToString(b.nonce) \o "}"

\* crypto.createHash('SHA256') ... digest('hex'): injective in the hashed text
Sha256Hex(text) == "sha256(" \o text \o ")"

\* get hash(): recomputed from the block's current fields at every read
Hash(b) == Sha256Hex(BlockToString(b))

----------------------------------------------------------------------------
(* Chain *)

\* the first four hex digits of crypto.createHash('MD5') of n.toString(),
\* tabulated from the real digests
Md5Hex4(n) ==
    CASE n = 96490842 -> "42fe"
      [] n = 96490843 -> "0000"
      [] n = 96490844 -> "d138"
      [] n = 96490845 -> "cdb1"
      [] n = 96490846 -> "0063"
      [] n = 96490847 -> "c6cd"
      [] n = 96490848 -> "0000"
      [] n = 96490849 -> "22a6"

\* the prefix a digest must have
Target == "0000"

\* a search that starts one too late
StartSolution_Two == 1 + 1

\* let solution = 1
StartSolution == 1

\* new Block('', new Transaction(100, 'genesis', 'satoshi'))
Genesis(ts, nonce) ==
    Block("", Transaction(Num(100), "genesis", "satoshi"), ts, nonce)

\* the first block taken for the most recent one
lastBlock_First == chain[1]

\* get lastBlock()
lastBlock == chain[Len(chain)]

\* a block linked to the tip's prevHash instead of the tip's hash
NewBlock_PrevHash(transaction, ts, nonce) ==
    Block(lastBlock.prevHash, transaction, ts, nonce)

\* new Block(this.lastBlock.hash, transaction), with the values Date.now()
\* and Math.random() gave
NewBlock(transaction, ts, nonce) ==
    Block(Hash(lastBlock), transaction, ts, nonce)

\* hash.update((nonce + solution).toString()).end(); hash.digest('hex'),
\* cut to the four digits the loop looks at
Attempt(nonce, sol) == Md5Hex4(nonce + sol)

\* the test inverted
Solved_Inverted(attempt) == attempt # Target

\* attempt.substr(0,4) === '0000'
Solved(attempt) == attempt = Target

\* the naive implementation: every transaction is taken for legitimate
IsValid_Naive(transaction, senderPublicKey, signature) == TRUE

\* a check that the sender's key is the payer's added to the verification
IsValid_PayerChecked(transaction, senderPublicKey, signature) ==
    /\ Verify(senderPublicKey, TxToString(transaction), signature)
    /\ senderPublicKey = transaction.payer

\* addBlock's isValid
IsValid(transaction, senderPublicKey, signature) ==
    Verify(senderPublicKey, TxToString(transaction), signature)

----------------------------------------------------------------------------
(* Inputs of the model *)

Amounts == {Num(50), PosInfinity, NegInfinity}

PublicKeys == {PublicKey(w) : w \in Wallets}

\* the transactions callers build
Transactions ==
    {Transaction(a, PublicKey("alice"), PublicKey("bob")) : a \in Amounts}
        \cup {Transaction(Num(50), PublicKey("bob"), PublicKey("bob")),
              Transaction(Num(50), PublicKey("alice"), PublicKey("alice"))}

\* the signatures a caller of addBlock can hold: any wallet's signature of
\* any transaction, as produced or with a byte flipped
Signatures ==
    LET signed == {Sign(PrivateKey(w), TxToString(t)) : w \in Wallets, t \in Transactions}
    IN  signed \cup {Corrupt(s) : s \in signed}

NoCall ==
    [op |-> "none", transaction |-> Transaction(Num(0), "", ""), senderPublicKey |-> "",
     signature |-> Sign("", ""), isValid |-> FALSE, before |-> <<>>]

----------------------------------------------------------------------------
(* Operations *)

Init ==
    /\ \E nonce \in NonceChoices : chain = <<Genesis(0, nonce)>>
    /\ pc = "idle"
    /\ newBlock = <<>>
    /\ solution = 0
    /\ now = 0
    /\ call = NoCall
    /\ mined = 0
    /\ log = <<>>
    /\ admitted = <<>>

\* this.mine(newBlock.nonce): the block as it is after the call
AfterMine(block, sol) == block

\* unshift instead of push
Push_Unshift(blocks, block) == <<block>> \o blocks

\* this.chain.push(newBlock)
Push(blocks, block) == Append(blocks, block)

\* addBlock from its entry to the call of mine, or to its end when the
\* signature does not verify
Enter(op, transaction, senderPublicKey, signature) ==
    /\ pc = "idle"
    /\ Len(chain) < MaxChain
    /\ LET isValid == IsValid(transaction, senderPublicKey, signature)
       IN  /\ call' = [op |-> op, transaction |-> transaction,
                       senderPublicKey |-> senderPublicKey, signature |-> signature,
                       isValid |-> isValid, before |-> chain]
           /\ IF isValid
              THEN \E ts \in now..MaxTime, nonce \in NonceChoices :
                      /\ newBlock' = <<NewBlock(transaction, ts, nonce)>>
                      /\ now' = ts
                      /\ solution' = StartSolution
                      /\ pc' = "mine"
              ELSE /\ pc' = "return"
                   /\ UNCHANGED <<newBlock, now, solution>>
    /\ admitted' = IF Verify(senderPublicKey, TxToString(transaction), signature)
                   THEN Append(admitted, transaction)
                   ELSE admitted
    /\ UNCHANGED <<chain, mined, log>>

\* Chain.instance.addBlock called by any code holding a transaction and a signature
AddBlock(transaction, senderPublicKey, signature) ==
    Enter("addBlock", transaction, senderPublicKey, signature)

\* the payee's key handed to addBlock as the sender's key
SendMoney_PayeeKey(w, amount, payeePublicKey) ==
    LET transaction == Transaction(amount, KeyPair(w).publicKey, payeePublicKey)
        signature == Sign(KeyPair(w).privateKey, TxToString(transaction))
    IN  /\ transaction \in Transactions
        /\ Enter("sendMoney", transaction, payeePublicKey, signature)

\* Wallet.sendMoney
SendMoney(w, amount, payeePublicKey) ==
    LET transaction == Transaction(amount, KeyPair(w).publicKey, payeePublicKey)
        signature == Sign(KeyPair(w).privateKey, TxToString(transaction))
    IN  /\ transaction \in Transactions
        /\ Enter("sendMoney", transaction, KeyPair(w).publicKey, signature)

\* the increment forgotten
NextSolution_Stuck(sol) == sol

\* solution += 1
NextSolution(sol) == sol + 1

\* one turn of mine's loop that does not find the target
MineTry ==
    /\ pc = "mine"
    /\ ~Solved(Attempt(newBlock[1].nonce, solution))
    /\ solution' = NextSolution(solution)
    /\ UNCHANGED <<chain, pc, newBlock, now, call, mined, log, admitted>>

\* the turn of mine's loop that finds the target: mine returns solution and
\* addBlock pushes the block
MineSolved ==
    /\ pc = "mine"
    /\ Solved(Attempt(newBlock[1].nonce, solution))
    /\ mined' = solution
    /\ newBlock' = <<AfterMine(newBlock[1], solution)>>
    /\ chain' = Push(chain, newBlock'[1])
    /\ log' = Append(log, [nonce |-> newBlock[1].nonce, solution |-> solution])
    /\ solution' = 0
    /\ pc' = "return"
    /\ UNCHANGED <<now, call, admitted>>

\* addBlock returns to its caller
Return ==
    /\ pc = "return"
    /\ pc' = "idle"
    /\ call' = NoCall
    /\ newBlock' = <<>>
    /\ mined' = 0
    /\ UNCHANGED <<chain, solution, now, log, admitted>>

Next ==
    \/ \E t \in Transactions, k \in PublicKeys, s \in Signatures : AddBlock(t, k, s)
    \/ \E w \in Wallets, a \in Amounts, p \in PublicKeys : SendMoney(w, a, p)
    \/ MineTry
    \/ MineSolved
    \/ Return

Spec == Init /\ [][Next]_vars

\* the single thread runs on: a call that has been entered keeps executing
\* mine's loop and then returns (addBlock and mine are synchronous code)
FairSpec ==
    /\ Spec
    /\ WF_vars(MineTry)
    /\ WF_vars(MineSolved)
    /\ WF_vars(Return)

----------------------------------------------------------------------------
(* Properties *)

Tip == chain[Len(chain)]

\* the signature of the call in progress verifies against its transaction
CallVerifies ==
    Verify(call.senderPublicKey, TxToString(call.transaction), call.signature)

\* C1: in every reachable state, for every index i > 0 of the chain,
\* chain[i].prevHash is the hash of chain[i-1] computed from its stored fields
\* (indices here start at 1)
C1_ChainLinkage ==
    \A i \in 2..Len(chain) : chain[i].prevHash = Hash(chain[i - 1])

C1_Witness ==
    /\ Len(chain) = 3
    /\ pc = "idle"
    /\ chain[3].prevHash = Hash(chain[2])

\* C2: the chain always has at least one block, its first block is the
\* genesis block with an empty prevHash, and no step replaces the first block
C2_Genesis ==
    /\ [](/\ Len(chain) >= 1
          /\ chain[1].prevHash = ""
          /\ chain[1].transaction = Transaction(Num(100), "genesis", "satoshi"))
    /\ [][chain'[1] = chain[1]]_vars

C2_Witness ==
    /\ Len(chain) = 3
    /\ pc = "return"
    /\ chain[1].prevHash = ""

\* C3: a call of addBlock whose signature does not verify returns at once,
\* without mining, and leaves the chain as it was at the call
C3_RejectNoChange ==
    (call.op # "none" /\ ~CallVerifies) =>
        /\ pc = "return"
        /\ chain = call.before
        /\ newBlock = <<>>
        /\ solution = 0
        /\ mined = 0

C3_Witness ==
    /\ call.op = "addBlock"
    /\ ~CallVerifies
    /\ pc = "return"
    /\ Len(chain) = 2

\* C4: when a call of addBlock whose signature verifies returns, the chain is
\* one block longer than at the call, and the new last block carries the
\* submitted transaction and the hash of the block that was the tip at the call
C4_AdmitAppendsOne ==
    (pc = "return" /\ CallVerifies) =>
        /\ Len(chain) = Len(call.before) + 1
        /\ Tip.transaction = call.transaction
        /\ Tip.prevHash = Hash(call.before[Len(call.before)])

C4_Witness ==
    /\ pc = "return"
    /\ CallVerifies
    /\ Len(chain) = 3
    /\ Tip.transaction = call.transaction

\* C5: the chain is append-only: every step keeps every block of the chain
\* at its index with all its fields, and the length never decreases
C5_AppendOnly ==
    [][/\ Len(chain') >= Len(chain)
       /\ \A i \in 1..Len(chain) : chain'[i] = chain[i]]_vars

C5_Witness ==
    /\ Len(chain) = 3
    /\ pc = "return"
    /\ call.before = SubSeq(chain, 1, 2)

\* C6: every non-genesis block of the chain stores as its nonce the solution
\* mine returned for the block's initial nonce
C6_NonceIsSolution ==
    \A i \in 1..Len(log) : chain[i + 1].nonce = log[i].solution

\* C7: whenever mine(seed) returns s, the digest of seed + s starts with 0000
C7_MineMeetsTarget ==
    /\ \A i \in 1..Len(log) : Md5Hex4(log[i].nonce + log[i].solution) = "0000"
    /\ mined > 0 => Md5Hex4(newBlock[1].nonce + mined) = "0000"

C7_Witness ==
    /\ Len(log) = 2
    /\ log[1].solution = 1
    /\ log[2].solution = 5
    /\ mined = 5

\* C8: the value mine(seed) returns is the smallest non-negative integer s
\* for which the digest of seed + s starts with 0000
C8_SmallestNonNegative ==
    \A i \in 1..Len(log) :
        \A s \in 0..(log[i].solution - 1) : Md5Hex4(log[i].nonce + s) # "0000"

\* C8 as amended: the value mine(seed) returns is at least 1 and is the
\* smallest integer s >= 1 for which the digest of seed + s starts with 0000
C8_SmallestPositive ==
    \A i \in 1..Len(log) :
        /\ log[i].solution >= 1
        /\ Md5Hex4(log[i].nonce + log[i].solution) = "0000"
        /\ \A s \in 1..(log[i].solution - 1) : Md5Hex4(log[i].nonce + s) # "0000"

C8_Witness ==
    \E i \in 1..Len(log) :
        /\ log[i].solution = 5
        /\ Md5Hex4(log[i].nonce) = "0000"

\* C9: the signature a wallet w makes of a transaction t verifies under w's
\* public key against t, and against no transaction that differs from t in
\* its amount, payer or payee: addBlock rejects such a call
C9_SignatureRoundTrip ==
    \A w \in Wallets, t \in Transactions :
        ( /\ call.op # "none"
          /\ call.senderPublicKey = PublicKey(w)
          /\ call.signature = Sign(PrivateKey(w), TxToString(t)) )
        => /\ call.isValid <=> (call.transaction = t)
           /\ call.transaction # t => (pc = "return" /\ chain = call.before)

\* C10: the chain starts with the genesis block alone, and every step that
\* changes the chain is the push of one block by a call of addBlock whose
\* signature verifies against that block's transaction under the call's key
C10_NoBypass ==
    /\ Len(chain) = 1
    /\ [][chain' # chain =>
            /\ call.op \in {"addBlock", "sendMoney"}
            /\ call' = call
            /\ chain' = Append(chain, chain'[Len(chain')])
            /\ Verify(call.senderPublicKey,
                      TxToString(chain'[Len(chain')].transaction),
                      call.signature)]_vars

C10_Witness ==
    /\ Len(chain) = 3
    /\ pc = "return"
    /\ call.op = "addBlock"
    /\ call.senderPublicKey # Tip.transaction.payer

\* C11: admissions do not interleave: while a call is mining, the chain is as
\* it was at the call and the block under construction is linked to the
\* present tip; and no two blocks of the chain carry the same prevHash
C11_NoInterleaving ==
    /\ pc = "mine" =>
          /\ chain = call.before
          /\ newBlock[1].prevHash = Hash(Tip)
    /\ \A i, j \in 1..Len(chain) :
          i # j => chain[i].prevHash # chain[j].prevHash

C11_Witness ==
    /\ pc = "mine"
    /\ Len(chain) = 2
    /\ solution = 3
    /\ newBlock[1].prevHash = Hash(chain[2])

C13_EmptyPrevHashIsGenesis ==
    /\ {i \in 1..Len(chain) : chain[i].prevHash = ""} = {1}
    /\ \A i \in 2..Len(chain) :
          /\ chain[i].prevHash # ""
          /\ \E j \in 1..(i - 1) : chain[i].prevHash = Hash(chain[j])

C13_Witness ==
    /\ Len(chain) = 3
    /\ chain[1].prevHash = ""
    /\ chain[2].prevHash = Hash(chain[1])
    /\ chain[3].prevHash = Hash(chain[2])
    /\ pc = "return"
    /\ call.op = "sendMoney"

\* C14: within a call of addBlock the order is verify, construct on the tip,
\* mine, append: mining goes on only after the signature has verified and
\* with the block built on the tip and not yet appended; the block is in the
\* chain only after mine has returned a solution; and a call whose signature
\* does not verify builds no block and starts no mining
C14_StepOrder ==
    /\ pc = "mine" =>
          /\ CallVerifies
          /\ newBlock # <<>>
          /\ newBlock[1].transaction = call.transaction
          /\ newBlock[1].prevHash = Hash(Tip)
          /\ solution >= 1
          /\ mined = 0
          /\ chain = call.before
    /\ (call.op # "none" /\ chain # call.before) =>
          /\ pc = "return"
          /\ CallVerifies
          /\ mined >= 1
          /\ Solved(Attempt(newBlock[1].nonce, mined))
          /\ chain = Append(call.before, newBlock[1])
    /\ (call.op # "none" /\ ~CallVerifies) =>
          /\ newBlock = <<>>
          /\ solution = 0
          /\ mined = 0
          /\ pc = "return"

C14_Witness ==
    /\ pc = "return"
    /\ CallVerifies
    /\ mined = 5
    /\ Len(chain) = 3
    /\ chain = Append(call.before, newBlock[1])

\* C15: addBlock does not compare senderPublicKey with transaction.payer: a
\* call is accepted exactly when its signature verifies against its
\* transaction under senderPublicKey, also when the payer is another key
C15_PayerNotCompared ==
    call.op # "none" =>
        /\ call.isValid <=> CallVerifies
        /\ pc = "return" =>
              IF CallVerifies
              THEN chain = Append(call.before, [Tip EXCEPT !.transaction = call.transaction])
              ELSE chain = call.before

C15_Witness ==
    /\ pc = "return"
    /\ CallVerifies
    /\ call.senderPublicKey # call.transaction.payer
    /\ Len(chain) = 3
    /\ Tip.transaction = call.transaction
    /\ Tip.transaction.payer = PublicKey("alice")
    /\ call.senderPublicKey = PublicKey("bob")

\* the integers the MD5 table covers
Md5Window == 96490842..96490849

\* some solution >= from meets the target for the seed nonce
HasSolution(nonce, from) ==
    \E n \in Md5Window : n >= nonce + from /\ Solved(Md5Hex4(n))

\* C16: the search starts at solution = 1 and goes up by 1 at each failed
\* attempt, with no bound on the attempts; and whenever a solution exists for
\* the block's nonce, the call that is mining eventually returns with its
\* block appended to the chain
C16_MiningTerminates ==
    /\ [][/\ (pc = "idle" /\ pc' = "mine") => solution' = 1
          /\ (pc = "mine" /\ pc' = "mine") => solution' = solution + 1]_vars
    /\ (pc = "mine" /\ HasSolution(newBlock[1].nonce, solution))
          ~> (/\ pc = "return"
              /\ mined >= 1
              /\ Len(chain) = Len(call.before) + 1
              /\ Tip.transaction = call.transaction)

C16_Witness ==
    /\ pc = "return"
    /\ mined = 5
    /\ call.op = "sendMoney"
    /\ Len(chain) = Len(call.before) + 1
    /\ Tip.transaction = call.transaction

\* C17: a call of addBlock made by sendMoney(amount, payee) of a wallet w
\* carries a transaction with payer w.publicKey, that amount and that payee,
\* under w's key with w's signature of it; it passes the signature check, is
\* never rejected, and when it returns exactly one block, carrying that
\* transaction, has been appended
C17_OwnTransferAccepted ==
    call.op = "sendMoney" =>
        /\ \E w \in Wallets, a \in Amounts, p \in PublicKeys :
              /\ call.transaction = Transaction(a, PublicKey(w), p)
              /\ call.senderPublicKey = PublicKey(w)
              /\ call.signature = Sign(PrivateKey(w), TxToString(call.transaction))
        /\ CallVerifies
        /\ call.isValid
        /\ pc = "mine" => (chain = call.before /\ newBlock[1].transaction = call.transaction)
        /\ pc = "return" =>
              /\ Len(chain) = Len(call.before) + 1
              /\ SubSeq(chain, 1, Len(call.before)) = call.before
              /\ Tip.transaction = call.transaction

C17_Witness ==
    /\ call.op = "sendMoney"
    /\ pc = "return"
    /\ Len(chain) = 3
    /\ Tip.transaction = Transaction(PosInfinity, PublicKey("alice"), PublicKey("bob"))
    /\ call.senderPublicKey = PublicKey("alice")

\* C18: the transactions of the blocks after the genesis block are exactly
\* the transactions of the calls whose signature verified, in the order the
\* calls were made (the call that is still mining has not appended yet);
\* rejected calls leave nothing in the chain
C18_ChainOrderIsCallOrder ==
    LET done == IF pc = "mine" THEN Len(admitted) - 1 ELSE Len(admitted)
    IN  /\ Len(chain) = 1 + done
        /\ \A i \in 1..done : chain[i + 1].transaction = admitted[i]
        /\ pc = "mine" => admitted[Len(admitted)] = call.transaction

C18_Witness ==
    /\ Len(chain) = 3
    /\ Len(admitted) = 2
    /\ admitted[1] # admitted[2]
    /\ chain[2].transaction = admitted[1]
    /\ chain[3].transaction = admitted[2]
    /\ pc = "idle"

====
